---- MODULE Spec2Model ----
(***************************************************************************)
(* Particle demo: sample_readable.py (classes, Python floats) and          *)
(* sample.py (single scope, numpy float32 arrays).  Both programs are      *)
(* modelled side by side; prog says which one a behaviour runs.            *)
(*                                                                         *)
(* Numbers.  A coordinate or velocity is an integer number of ticks,       *)
(* Unit ticks to the pixel.  A Python float (double) holds every tick      *)
(* value of the model exactly; a numpy float32 holds only the values with  *)
(* at most Prec significant bits, and every float32 operation rounds its   *)
(* exact result to the nearest such value, ties to even (F32).             *)
(***************************************************************************)
EXTENDS Integers, Sequences, FiniteSets, TLC

VARIABLES
    prog,       \* "readable" (sample_readable.py) or "vectorized" (sample.py)
    W, H,       \* Bounds.width / Bounds.height; W, H of sample.py
    COUNT,      \* the count given to build_system; COUNT of sample.py
    pc,         \* position of the program
    running,    \* the loop flag
    i,          \* number of elements the running loop has processed
    particles,  \* ParticleSystem._particles (readable)
    building,   \* the list the comprehension of update is building (readable)
    P_X, P_Y, V_X, V_Y, COLOR,   \* the arrays of sample.py
    screen,     \* the pixel buffer (the display surface, arr)
    display,    \* what the last flip put on the display
    frame,      \* number of updates completed
    hist        \* history: what the current frame has done so far

vars == <<prog, W, H, COUNT, pc, running, i, particles, building,
          P_X, P_Y, V_X, V_Y, COLOR, screen, display, frame, hist>>

readableVars == <<particles, building>>
arrayVars == <<P_X, P_Y, V_X, V_Y, COLOR>>
config == <<prog, W, H, COUNT>>

----------------------------------------------------------------------------
(* Bounds of the model *)

UnitBits == 4
Prec == 3
MaxW == 3
MaxCount == 2
MaxFrames == 3

(* Program constants *)
VelScaleNum == 42
VelScaleDen == 10
ChannelMax == 255
ChannelRange == 256

Unit == 2 ^ UnitBits        \* ticks per pixel
RandRes == Unit             \* a random draw k stands for k / RandRes in [0, 1)
Half == Unit \div 2         \* the literal 0.5, in units of 1 / RandRes

Abs(n) == IF n < 0 THEN -n ELSE n
Sign(n) == IF n < 0 THEN -1 ELSE 1

\* n / d rounded to the nearest integer, ties to even (d > 0)
RoundRat(n, d) ==
    LET f == n \div d
        r == n - f * d
    IN  IF 2 * r < d THEN f
        ELSE IF 2 * r > d THEN f + 1
        ELSE IF f % 2 = 0 THEN f ELSE f + 1

RECURSIVE Quantum(_, _)
\* spacing of the float32 values around a >= 0
Quantum(a, q) == IF a < (2 ^ Prec) * q THEN q ELSE Quantum(a, 2 * q)

\* conversion to float32 (.astype(np.float32), and the rounding of every
\* float32 operation): nearest value with Prec significant bits, ties to even
F32(n) ==
    LET a == Abs(n)
        q == Quantum(a, 1)
        m == a \div q
        r == a - m * q
        up == IF 2 * r < q THEN FALSE
              ELSE IF 2 * r > q THEN TRUE
              ELSE m % 2 = 1
    IN  Sign(n) * (IF up THEN (m + 1) * q ELSE m * q)

\* int(x) and .astype(np.int32): truncation toward zero, ticks to pixels
Trunc(n) == IF n >= 0 THEN n \div Unit ELSE -((-n) \div Unit)

Black == <<0, 0, 0>>
Pixels(w, h) == (0 .. (w - 1)) \X (0 .. (h - 1))
Blank(w, h) == [px \in Pixels(w, h) |-> Black]

----------------------------------------------------------------------------
(* Domain of sample_readable.py *)

Vector2(x, y) == [x |-> x, y |-> y]
add(self, other) == Vector2(self.x + other.x, self.y + other.y)
Bounds(width, height) == [width |-> width, height |-> height]
Particle(position, velocity, color) ==
    [position |-> position, velocity |-> velocity, color |-> color]

\* clamp_and_reflect with the far edge at width instead of width - 1
clamp_and_reflect_far(bounds, position, velocity) ==
    LET x == position.x
        y == position.y
        vx == velocity.x
        vy == velocity.y
        xr == IF x < 0 THEN <<0, -vx>>
              ELSE IF x > bounds.width * Unit
                   THEN <<bounds.width * Unit, -vx>>
              ELSE <<x, vx>>
        yr == IF y < 0 THEN <<0, -vy>>
              ELSE IF y > bounds.height * Unit
                   THEN <<bounds.height * Unit, -vy>>
              ELSE <<y, vy>>
    IN  <<Vector2(xr[1], yr[1]), Vector2(xr[2], yr[2])>>

\* clamp_and_reflect with the far edge test >= instead of >
clamp_and_reflect_ge(bounds, position, velocity) ==
    LET x == position.x
        y == position.y
        vx == velocity.x
        vy == velocity.y
        xr == IF x < 0 THEN <<0, -vx>>
              ELSE IF x >= (bounds.width - 1) * Unit
                   THEN <<(bounds.width - 1) * Unit, -vx>>
              ELSE <<x, vx>>
        yr == IF y < 0 THEN <<0, -vy>>
              ELSE IF y >= (bounds.height - 1) * Unit
                   THEN <<(bounds.height - 1) * Unit, -vy>>
              ELSE <<y, vy>>
    IN  <<Vector2(xr[1], yr[1]), Vector2(xr[2], yr[2])>>

clamp_and_reflect(bounds, position, velocity) ==
    LET x == position.x
        y == position.y
        vx == velocity.x
        vy == velocity.y
        xr == IF x < 0 THEN <<0, -vx>>
              ELSE IF x > (bounds.width - 1) * Unit
                   THEN <<(bounds.width - 1) * Unit, -vx>>
              ELSE <<x, vx>>
        yr == IF y < 0 THEN <<0, -vy>>
              ELSE IF y > (bounds.height - 1) * Unit
                   THEN <<(bounds.height - 1) * Unit, -vy>>
              ELSE <<y, vy>>
    IN  <<Vector2(xr[1], yr[1]), Vector2(xr[2], yr[2])>>

\* step that builds the next particle without carrying the colour over
step_recolor(self, bounds) ==
    LET next_pos == add(self.position, self.velocity)
        bounded == clamp_and_reflect(bounds, next_pos, self.velocity)
    IN  Particle(bounded[1], bounded[2], Black)

step(self, bounds) ==
    LET next_pos == add(self.position, self.velocity)
        bounded == clamp_and_reflect(bounds, next_pos, self.velocity)
    IN  Particle(bounded[1], bounded[2], self.color)

----------------------------------------------------------------------------
(* Random draws.  One particle consumes four draws of random() / rand()    *)
(* and three colour draws; a draw is k in 0 .. RandRes - 1.  The model     *)
(* samples the extreme draws.                                              *)

RandMax == RandRes - 1
RandSamples == {0, RandMax}
PosDraws == {<<k, k>> : k \in RandSamples}
VelDraws == {<<0, RandMax>>, <<RandMax, 0>>}
ColorDraws == {<<RandMax, 0, 0>>, <<0, RandMax, 0>>}
Draws == {[rx |-> p[1], ry |-> p[2], rvx |-> v[1], rvy |-> v[2], rc |-> c] :
            p \in PosDraws, v \in VelDraws, c \in ColorDraws}

\* randrange(256)
randrange(k) == (k * ChannelRange) \div RandRes

\* random_particle that scales the draw by width + 1 and height + 1
random_particle_wide(bounds, d) ==
    LET position == Vector2(d.rx * (bounds.width + 1), d.ry * (bounds.height + 1))
        velocity == Vector2(RoundRat((d.rvx - Half) * VelScaleNum, VelScaleDen),
                            RoundRat((d.rvy - Half) * VelScaleNum, VelScaleDen))
        color == <<randrange(d.rc[1]), randrange(d.rc[2]), randrange(d.rc[3])>>
    IN  Particle(position, velocity, color)

random_particle(bounds, d) ==
    LET position == Vector2(d.rx * bounds.width, d.ry * bounds.height)
        velocity == Vector2(RoundRat((d.rvx - Half) * VelScaleNum, VelScaleDen),
                            RoundRat((d.rvy - Half) * VelScaleNum, VelScaleDen))
        color == <<randrange(d.rc[1]), randrange(d.rc[2]), randrange(d.rc[3])>>
    IN  Particle(position, velocity, color)

\* range(count) is empty for count <= 0
RangeLen(count) == IF count < 0 THEN 0 ELSE count

\* np.random.rand(COUNT).astype(np.float32) * W
InitPos(k, size) == F32(F32(k) * size)
\* (np.random.rand(COUNT).astype(np.float32) - 0.5) * 4.2
InitVel(k) == F32(RoundRat(F32(F32(k) - Half) * VelScaleNum, VelScaleDen))
\* (np.random.rand(COUNT, 3) * 255).astype(np.uint8)
InitColor(rc) == [c \in 1 .. 3 |-> (rc[c] * ChannelMax) \div RandRes]

----------------------------------------------------------------------------
(* numpy operations of sample.py, on sequences *)

\* P += V on float32 arrays
AddF32(P, V) == [j \in DOMAIN P |-> F32(P[j] + V[j])]
\* (P < 0) | (P > size - 1)
Mask(P, size) == {j \in DOMAIN P : P[j] < 0 \/ P[j] > (size - 1) * Unit}
\* V[mask] = -1 in place of V[mask] *= -1
NegateAt_assign(V, mask) == [j \in DOMAIN V |-> IF j \in mask THEN -1 ELSE V[j]]
\* V[mask] *= -1
NegateAt(V, mask) == [j \in DOMAIN V |-> IF j \in mask THEN -V[j] ELSE V[j]]
\* np.clip(P, 0, size)
Clip_far(P, size) ==
    [j \in DOMAIN P |-> IF P[j] < 0 THEN 0
                        ELSE IF P[j] > size * Unit THEN size * Unit
                        ELSE P[j]]
\* np.clip(P, 0, size - 1)
Clip(P, size) ==
    [j \in DOMAIN P |-> IF P[j] < 0 THEN 0
                        ELSE IF P[j] > (size - 1) * Unit THEN (size - 1) * Unit
                        ELSE P[j]]

----------------------------------------------------------------------------
(* The population, whichever program holds it *)

View ==
    IF prog = "readable"
    THEN [j \in 1 .. Len(particles) |->
            [x |-> particles[j].position.x, y |-> particles[j].position.y,
             vx |-> particles[j].velocity.x, vy |-> particles[j].velocity.y,
             color |-> particles[j].color]]
    ELSE [j \in 1 .. Len(P_X) |->
            [x |-> P_X[j], y |-> P_Y[j], vx |-> V_X[j], vy |-> V_Y[j],
             color |-> COLOR[j]]]

N == Len(View)

\* nothing done yet in this frame
NoHist == [init |-> <<>>, start |-> <<>>, integ |-> <<>>, reflx |-> {},
           refly |-> {}, cleared |-> FALSE, drawn |-> {}, presented |-> FALSE]

\* history at the start of a frame of the loop
FrameStart(h, pop) ==
    [h EXCEPT !.start = pop, !.integ = <<>>, !.reflx = {}, !.refly = {},
              !.cleared = FALSE, !.drawn = {}, !.presented = FALSE]


----------------------------------------------------------------------------
(* sample_readable.py: composition root and game loop *)

build_system(count, bounds, ds) ==
    [j \in 1 .. RangeLen(count) |-> random_particle(bounds, ds[j])]

\* Surface.set_at: a position outside the surface has no effect
set_at(surf, pos, color) ==
    IF pos \in DOMAIN surf THEN [surf EXCEPT ![pos] = color] ELSE surf

\* a fill that leaves the surface as it was
fill_nothing(surf, color) == surf
\* Surface.fill
fill(surf, color) == [px \in DOMAIN surf |-> color]

main ==
    /\ pc = "start" /\ prog = "readable"
    /\ \E ds \in [1 .. RangeLen(COUNT) -> Draws] :
          particles' = build_system(COUNT, Bounds(W, H), ds)
    /\ pc' = "events"
    /\ UNCHANGED <<config, running, i, building, arrayVars, screen, display, frame>>
    /\ hist' = [NoHist EXCEPT !.init = View']

\* GameLoop.run: the event poll at the top of an iteration
run ==
    /\ pc = "events" /\ prog = "readable"
    /\ \E quit \in BOOLEAN :
          /\ quit \/ frame < MaxFrames
          /\ running' = ~quit
    /\ pc' = "tick"
    /\ i' = 0
    /\ building' = <<>>
    /\ hist' = FrameStart(hist, View)
    /\ UNCHANGED <<config, particles, arrayVars, screen, display, frame>>

\* ParticleSystem.update: one element of the comprehension
update_step ==
    /\ pc = "tick" /\ i < Len(particles)
    /\ building' = Append(building, step(particles[i + 1], Bounds(W, H)))
    /\ i' = i + 1
    /\ hist' = [hist EXCEPT
                  !.integ = Append(@, add(particles[i + 1].position,
                                          particles[i + 1].velocity)),
                  !.reflx = @ \cup {i + 1},
                  !.refly = @ \cup {i + 1}]
    /\ UNCHANGED <<config, pc, running, particles, arrayVars, screen, display, frame>>

\* ParticleSystem.update: the assignment of the finished list
update ==
    /\ pc = "tick" /\ i = Len(particles)
    /\ particles' = building
    /\ frame' = frame + 1
    /\ pc' = "clear"
    /\ UNCHANGED <<config, running, i, building, arrayVars, screen, display, hist>>

clear ==
    /\ pc = "clear" /\ prog = "readable"
    /\ screen' = fill(screen, Black)
    /\ pc' = "draw"
    /\ i' = 0
    /\ hist' = [hist EXCEPT !.cleared = TRUE]
    /\ UNCHANGED <<config, running, readableVars, arrayVars, display, frame>>

\* PygameRenderer.draw: one iteration of the loop
draw ==
    /\ pc = "draw" /\ prog = "readable" /\ i < Len(particles)
    /\ LET p == particles[i + 1]
       IN  screen' = set_at(screen, <<Trunc(p.position.x), Trunc(p.position.y)>>,
                            p.color)
    /\ i' = i + 1
    /\ hist' = [hist EXCEPT !.drawn = @ \cup {i + 1}]
    /\ UNCHANGED <<config, pc, running, readableVars, arrayVars, display, frame>>

\* present called inside the draw loop, before the last particle is drawn
present_early ==
    /\ pc = "draw" /\ prog = "readable" /\ i <= Len(particles)
    /\ display' = screen
    /\ pc' = IF running THEN "events" ELSE "done"
    /\ hist' = [hist EXCEPT !.presented = TRUE]
    /\ UNCHANGED <<config, running, i, readableVars, arrayVars, screen, frame>>

\* PygameRenderer.present, clock.tick and the loop test
present ==
    /\ pc = "draw" /\ prog = "readable" /\ i = Len(particles)
    /\ display' = screen
    /\ pc' = IF running THEN "events" ELSE "done"
    /\ hist' = [hist EXCEPT !.presented = TRUE]
    /\ UNCHANGED <<config, running, i, readableVars, arrayVars, screen, frame>>

----------------------------------------------------------------------------
(* sample.py *)

v_init ==
    /\ pc = "start" /\ prog = "vectorized"
    /\ \E ds \in [1 .. COUNT -> Draws] :
          /\ P_X' = [j \in 1 .. COUNT |-> InitPos(ds[j].rx, W)]
          /\ P_Y' = [j \in 1 .. COUNT |-> InitPos(ds[j].ry, H)]
          /\ V_X' = [j \in 1 .. COUNT |-> InitVel(ds[j].rvx)]
          /\ V_Y' = [j \in 1 .. COUNT |-> InitVel(ds[j].rvy)]
          /\ COLOR' = [j \in 1 .. COUNT |-> InitColor(ds[j].rc)]
    /\ pc' = "events"
    /\ UNCHANGED <<config, running, i, readableVars, screen, display, frame>>
    /\ hist' = [NoHist EXCEPT !.init = View']

v_events ==
    /\ pc = "events" /\ prog = "vectorized"
    /\ \E quit \in BOOLEAN :
          /\ quit \/ frame < MaxFrames
          /\ running' = ~quit
    /\ pc' = "integrate"
    /\ hist' = FrameStart(hist, View)
    /\ UNCHANGED <<config, i, readableVars, arrayVars, screen, display, frame>>

v_integrate ==
    /\ pc = "integrate"
    /\ P_X' = AddF32(P_X, V_X)
    /\ P_Y' = AddF32(P_Y, V_Y)
    /\ pc' = "bounce_x"
    /\ hist' = [hist EXCEPT
                  !.integ = [j \in 1 .. Len(P_X) |-> Vector2(P_X'[j], P_Y'[j])]]
    /\ UNCHANGED <<config, running, i, readableVars, V_X, V_Y, COLOR,
                   screen, display, frame>>

v_bounce_x ==
    /\ pc = "bounce_x"
    /\ V_X' = NegateAt(V_X, Mask(P_X, W))
    /\ P_X' = Clip(P_X, W)
    /\ pc' = "bounce_y"
    /\ hist' = [hist EXCEPT !.reflx = DOMAIN P_X]
    /\ UNCHANGED <<config, running, i, readableVars, P_Y, V_Y, COLOR,
                   screen, display, frame>>

v_bounce_y ==
    /\ pc = "bounce_y"
    /\ V_Y' = NegateAt(V_Y, Mask(P_Y, H))
    /\ P_Y' = Clip(P_Y, H)
    /\ frame' = frame + 1
    /\ pc' = "clear"
    /\ hist' = [hist EXCEPT !.refly = DOMAIN P_Y]
    /\ UNCHANGED <<config, running, i, readableVars, P_X, V_X, COLOR,
                   screen, display>>

v_clear ==
    /\ pc = "clear" /\ prog = "vectorized"
    /\ screen' = [px \in DOMAIN screen |-> Black]
    /\ pc' = "draw"
    /\ hist' = [hist EXCEPT !.cleared = TRUE]
    /\ UNCHANGED <<config, running, i, readableVars, arrayVars, display, frame>>

\* numpy integer-array indexing on an axis of the given size: an index in
\* -size .. size - 1 is valid, a negative one counts from the end
IndexOK(idx, size) == -size <= idx /\ idx < size
Wrap(idx, size) == IF idx < 0 THEN idx + size ELSE idx

RECURSIVE AssignFrom(_, _, _, _, _)
\* arr[xi, yi] = vals, elements j .. Len(xi) in index order
AssignFrom(arr, xi, yi, vals, j) ==
    IF j > Len(xi) THEN arr
    ELSE AssignFrom([arr EXCEPT ![<<Wrap(xi[j], W), Wrap(yi[j], H)>>] = vals[j]],
                    xi, yi, vals, j + 1)

v_draw ==
    /\ pc = "draw" /\ prog = "vectorized"
    /\ LET xi == [j \in DOMAIN P_X |-> Trunc(P_X[j])]
           yi == [j \in DOMAIN P_Y |-> Trunc(P_Y[j])]
       IN  IF \A j \in DOMAIN xi : IndexOK(xi[j], W) /\ IndexOK(yi[j], H)
           THEN /\ screen' = AssignFrom(screen, xi, yi, COLOR, 1)
                /\ pc' = "flip"
                /\ hist' = [hist EXCEPT !.drawn = DOMAIN P_X]
           ELSE \* IndexError: nothing is assigned and the script dies
                /\ pc' = "crashed"
                /\ UNCHANGED <<screen, hist>>
    /\ UNCHANGED <<config, running, i, readableVars, arrayVars, display, frame>>

v_flip ==
    /\ pc = "flip"
    /\ display' = screen
    /\ pc' = IF running THEN "events" ELSE "done"
    /\ hist' = [hist EXCEPT !.presented = TRUE]
    /\ UNCHANGED <<config, running, i, readableVars, arrayVars, screen, frame>>

----------------------------------------------------------------------------
(* Specifications *)

Programs == {"readable", "vectorized"}
ValidSizes == {<<MaxW, 1>>, <<1, MaxW>>}

InitAt(size, count) ==
    /\ prog \in Programs
    /\ W = size[1] /\ H = size[2]
    /\ COUNT = count
    /\ pc = "start"
    /\ running = TRUE
    /\ i = 0
    /\ particles = <<>> /\ building = <<>>
    /\ P_X = <<>> /\ P_Y = <<>> /\ V_X = <<>> /\ V_Y = <<>> /\ COLOR = <<>>
    /\ screen = Blank(W, H)
    /\ display = Blank(W, H)
    /\ frame = 0
    /\ hist = NoHist

\* The programs as they run: a valid configuration, a random population
Init == \E size \in ValidSizes, count \in 0 .. MaxCount : InitAt(size, count)

\* A configuration the caller may pass to Bounds and build_system; W, H
\* and COUNT of sample.py are literals of the script, never invalid
InvalidConfigs == {<<0, 1, 1>>, <<1, 0, 1>>, <<-1, 1, 1>>, <<MaxW, 1, -1>>}
ValidConfig == W >= 1 /\ H >= 1 /\ COUNT >= 0

InitAnyConfig ==
    \/ Init
    \/ /\ \E c \in InvalidConfigs : InitAt(<<c[1], c[2]>>, c[3])
       /\ prog = "readable"

\* Any population at an entry point of the frame: one particle with any
\* position and velocity around the edges of the domain
Edge(size) == (size - 1) * Unit
AnyPos(size) == {-Unit, 0, 1, Edge(size), Edge(size) + Unit}
AnyVel == {-3 * Unit, -1, 0, 1, 3 * Unit}
AnyParticles(w, h) ==
    {[x |-> x, y |-> y, vx |-> vx, vy |-> vy, color |-> <<ChannelMax, 0, 0>>] :
        x \in AnyPos(w), y \in AnyPos(h), vx \in AnyVel, vy \in AnyVel}

\* A population handed to the renderer: positions inside and outside the buffer
RenderPos(size) == {-Unit, 0, size * Unit}
RenderParticles(w, h) ==
    {[x |-> x, y |-> y, vx |-> 0, vy |-> 0, color |-> c] :
        x \in RenderPos(w), y \in RenderPos(h),
        c \in {<<ChannelMax, 0, 0>>, <<0, ChannelMax, 0>>}}

\* The state in which the program holds population pop at position at
InitWith(pop, at, size) ==
    /\ prog \in Programs
    /\ W = size[1] /\ H = size[2]
    /\ COUNT = Len(pop)
    /\ pc = at
    /\ running = TRUE
    /\ i = 0
    /\ building = <<>>
    /\ IF prog = "readable"
       THEN /\ particles = [j \in DOMAIN pop |->
                              Particle(Vector2(pop[j].x, pop[j].y),
                                       Vector2(pop[j].vx, pop[j].vy), pop[j].color)]
            /\ P_X = <<>> /\ P_Y = <<>> /\ V_X = <<>> /\ V_Y = <<>> /\ COLOR = <<>>
       ELSE /\ particles = <<>>
            /\ P_X = [j \in DOMAIN pop |-> F32(pop[j].x)]
            /\ P_Y = [j \in DOMAIN pop |-> F32(pop[j].y)]
            /\ V_X = [j \in DOMAIN pop |-> F32(pop[j].vx)]
            /\ V_Y = [j \in DOMAIN pop |-> F32(pop[j].vy)]
            /\ COLOR = [j \in DOMAIN pop |-> pop[j].color]
    /\ screen = Blank(W, H)
    /\ display = Blank(W, H)
    /\ frame = 0
    /\ hist = [NoHist EXCEPT !.init = View]

InitAnyState ==
    \E size \in ValidSizes : \E p \in AnyParticles(size[1], size[2]) :
        InitWith(<<p>>, "events", size)

InitRender ==
    \E size \in ValidSizes :
        \E pop \in [1 .. MaxCount -> RenderParticles(size[1], size[2])] :
            InitWith(pop, "clear", size)

Frame ==
    \/ run \/ update_step \/ update \/ clear \/ draw \/ present
    \/ v_events \/ v_integrate \/ v_bounce_x \/ v_bounce_y
    \/ v_clear \/ v_draw \/ v_flip

Next == main \/ v_init \/ Frame

Spec == Init /\ [][Next]_vars

\* build_system and Bounds called with any configuration
SpecAnyConfig == InitAnyConfig /\ [][Next]_vars

\* the frame applied to any population
SpecAnyState == InitAnyState /\ [][Frame]_vars

\* the renderer applied to any population
SpecRender == InitRender /\ [][Frame]_vars

----------------------------------------------------------------------------
(* The two per-frame updates as functions of a population *)

\* ParticleSystem.update
ReadableUpdate(pop) ==
    [j \in DOMAIN pop |->
        LET q == step(Particle(Vector2(pop[j].x, pop[j].y),
                               Vector2(pop[j].vx, pop[j].vy), pop[j].color),
                      Bounds(W, H))
        IN  [x |-> q.position.x, y |-> q.position.y,
             vx |-> q.velocity.x, vy |-> q.velocity.y, color |-> q.color]]

\* the update and boundary bounce of sample.py
VecUpdate(pop) ==
    LET px == AddF32([j \in DOMAIN pop |-> pop[j].x], [j \in DOMAIN pop |-> pop[j].vx])
        py == AddF32([j \in DOMAIN pop |-> pop[j].y], [j \in DOMAIN pop |-> pop[j].vy])
        vx == NegateAt([j \in DOMAIN pop |-> pop[j].vx], Mask(px, W))
        vy == NegateAt([j \in DOMAIN pop |-> pop[j].vy], Mask(py, H))
        cx == Clip(px, W)
        cy == Clip(py, H)
    IN  [j \in DOMAIN pop |->
            [x |-> cx[j], y |-> cy[j], vx |-> vx[j], vy |-> vy[j],
             color |-> pop[j].color]]

----------------------------------------------------------------------------
(* Properties *)

All == 1 .. N
Max(S) == CHOOSE m \in S : \A k \in S : k <= m
OutOfRange(p, size) == p < 0 \/ p > Edge(size)

\* the update of the current frame has completed and nothing has been drawn
Updated == pc = "clear"
\* the positions are those a completed update left
Settled == frame >= 1 /\ pc \notin {"bounce_x", "bounce_y"}
\* clear and draw of the current frame have completed
Rendered ==
    \/ pc = "draw" /\ prog = "readable" /\ i = Len(particles)
    \/ pc = "flip"

\* C1: once a frame's integration and reflection have run, every particle's
\* position lies in [0, width-1] x [0, height-1], whatever the starting
\* position and velocity were.
C1_PositionsInBounds ==
    Settled => \A j \in All :
        /\ 0 <= View[j].x /\ View[j].x <= Edge(W)
        /\ 0 <= View[j].y /\ View[j].y <= Edge(H)

\* a particle that overshot the far edge in x and the near edge in y in the
\* same frame, after that frame's update
C1_Witness ==
    /\ Updated /\ N >= 1
    /\ hist.integ[1].x > Edge(W) + Unit
    /\ hist.integ[1].y < 0
    /\ View[1].x = Edge(W) /\ View[1].y = 0

\* the reflection of one axis: integrated position p, velocity v before
Reflected(p, v, size) ==
    IF p < 0 THEN <<0, -v>>
    ELSE IF p > Edge(size) THEN <<Edge(size), -v>>
    ELSE <<p, v>>

\* C2: on each axis the reflection step maps the integrated position p and
\* the velocity v to (0, -v) when p < 0, to (axisSize-1, -v) when
\* p > axisSize-1 and to (p, v) otherwise, reading nothing of the other axis.
C2_ReflectionLaw ==
    Updated => \A j \in All :
        /\ <<View[j].x, View[j].vx>> =
              Reflected(hist.integ[j].x, hist.start[j].vx, W)
        /\ <<View[j].y, View[j].vy>> =
              Reflected(hist.integ[j].y, hist.start[j].vy, H)

\* a moving particle integrated exactly onto the far edge of x, not reflected,
\* while its y is reflected
C2_Witness ==
    /\ Updated /\ N >= 1 /\ W > 1
    /\ hist.integ[1].x = Edge(W)
    /\ hist.start[1].vx # 0
    /\ View[1].vx = hist.start[1].vx
    /\ hist.integ[1].y < 0

\* the particles whose position truncates to pixel px
At(px) == {j \in All : <<Trunc(View[j].x), Trunc(View[j].y)>> = px}
\* the colour of the last particle, in index order, that truncates to px
Expected(px) == IF At(px) = {} THEN Black ELSE View[Max(At(px))].color

\* C3: after clear and draw every pixel holds the colour of the
\* highest-index particle truncating to it, and black when there is none;
\* the presented frame is that buffer.
C3_LastWriterWins ==
    /\ Rendered => \A px \in Pixels(W, H) : screen[px] = Expected(px)
    /\ (hist.presented /\ pc \in {"events", "done"}) =>
          \A px \in Pixels(W, H) : display[px] = Expected(px)

\* two particles of different colours on one pixel, another pixel left
\* empty after an earlier frame drew on it
C3_Witness ==
    /\ Rendered /\ frame >= 2 /\ N = 2
    /\ At(<<Trunc(View[1].x), Trunc(View[1].y)>>) = {1, 2}
    /\ View[1].color # View[2].color
    /\ \E px \in Pixels(W, H) : At(px) = {} /\ display[px] # Black

\* C4: the population keeps the size and the colours it was built with;
\* update changes only positions and velocities.
C4_CountAndColorsFixed ==
    pc # "start" =>
        /\ N = RangeLen(COUNT)
        /\ N = Len(hist.init)
        /\ \A j \in All : View[j].color = hist.init[j].color

\* two frames on, two particles that have moved
C4_Witness ==
    /\ frame >= 2 /\ N = 2
    /\ \A j \in All : View[j].x # hist.init[j].x

\* C5: construction with width < 1, height < 1 or count < 0 is refused: no
\* population is produced and no frame runs.
C5_InvalidConfigRefused ==
    ~ValidConfig => /\ pc = "start"
                    /\ particles = <<>>
                    /\ frame = 0

\* the state right after construction, before any frame
Built == pc = "events" /\ frame = 0

\* C6 as stated: construction yields positions within [0, width-1] x
\* [0, height-1].
C6_BuiltWithinInclusiveBounds ==
    Built => \A j \in All :
        /\ 0 <= View[j].x /\ View[j].x <= Edge(W)
        /\ 0 <= View[j].y /\ View[j].y <= Edge(H)

\* C6 as amended: construction yields 0 <= position_x <= width and
\* 0 <= position_y <= height, strictly below width and height in
\* sample_readable.py.
C6_BuiltWithinDomain ==
    Built => \A j \in All :
        /\ 0 <= View[j].x /\ View[j].x <= W * Unit
        /\ 0 <= View[j].y /\ View[j].y <= H * Unit
        /\ prog = "readable" => View[j].x < W * Unit /\ View[j].y < H * Unit

\* a population built with a particle beyond width - 1
C6_Witness ==
    /\ Built /\ N = 2
    /\ View[1].x > Edge(W)
    /\ View[2].x = 0

Integrated == 1 .. Len(hist.integ)
ReflectedSet == hist.reflx \cup hist.refly
\* nothing is cleared or drawn before the whole population is reflected,
\* nothing is drawn before the clear, and present follows every draw
RenderBarriers ==
    /\ (hist.cleared \/ hist.drawn # {}) =>
          hist.reflx = All /\ hist.refly = All
    /\ hist.drawn # {} => hist.cleared
    /\ hist.presented => hist.cleared /\ hist.drawn = All

\* C8 as stated: each step completes over the whole population before the
\* next begins; in particular no particle is reflected before every
\* particle has been integrated.
C8_StrictStepOrder ==
    /\ ReflectedSet # {} => Integrated = All
    /\ RenderBarriers

\* C8 as amended: a particle is reflected only after it has itself been
\* integrated, and in sample.py only after the whole population has been;
\* sample_readable.py integrates and reflects particle by particle.  The
\* update of the whole population precedes the clear, the clear precedes
\* every draw, and present follows the last draw.
C8_StepOrder ==
    /\ ReflectedSet \subseteq Integrated
    /\ (prog = "vectorized" /\ ReflectedSet # {}) => Integrated = All
    /\ RenderBarriers

\* a frame of two particles that has been presented
C8_Witness ==
    /\ hist.presented /\ N = 2 /\ frame >= 1
    /\ hist.drawn = {1, 2}

\* C9: in a frame a velocity component is negated exactly when the
\* integrated position on its axis is below 0 or above axisSize-1, and is
\* otherwise unchanged; at all times it is the construction value or its
\* negation.
C9_VelocityFlips ==
    /\ Updated => \A j \in All :
          /\ View[j].vx = IF OutOfRange(hist.integ[j].x, W)
                          THEN -hist.start[j].vx ELSE hist.start[j].vx
          /\ View[j].vy = IF OutOfRange(hist.integ[j].y, H)
                          THEN -hist.start[j].vy ELSE hist.start[j].vy
    /\ pc # "start" => \A j \in All :
          /\ View[j].vx \in {hist.init[j].vx, -hist.init[j].vx}
          /\ View[j].vy \in {hist.init[j].vy, -hist.init[j].vy}

\* a velocity negated in this frame back to its construction value, while
\* the other particle's is left alone
C9_Witness ==
    /\ Updated /\ N = 2 /\ frame >= 2
    /\ View[1].vx = hist.init[1].vx
    /\ View[1].vx = -hist.start[1].vx
    /\ View[1].vx # 0
    /\ View[2].vx = hist.start[2].vx

\* position and velocity of every particle
Kinematics(pop) ==
    [j \in DOMAIN pop |-> <<pop[j].x, pop[j].y, pop[j].vx, pop[j].vy>>]
\* every value of the population is a float32 value
IsF32(pop) ==
    \A j \in DOMAIN pop :
        /\ F32(pop[j].x) = pop[j].x /\ F32(pop[j].y) = pop[j].y
        /\ F32(pop[j].vx) = pop[j].vx /\ F32(pop[j].vy) = pop[j].vy
\* every sum position + velocity is a float32 value
ExactSums(pop) ==
    \A j \in DOMAIN pop :
        /\ F32(pop[j].x + pop[j].vx) = pop[j].x + pop[j].vx
        /\ F32(pop[j].y + pop[j].vy) = pop[j].y + pop[j].vy
\* what the other program's update makes of the population the frame
\* started from
OtherUpdate ==
    IF prog = "vectorized" THEN ReadableUpdate(hist.start)
    ELSE VecUpdate(hist.start)

\* C10 as stated: from the same positions, velocities and bounds the two
\* updates produce the same positions and velocities.
C10_UpdatesAgree ==
    (Updated /\ IsF32(hist.start)) =>
        Kinematics(View) = Kinematics(OtherUpdate)

\* C10 as amended: they produce the same positions and velocities in every
\* frame in which each sum position + velocity is exactly representable in
\* float32 (sample.py rounds the sum to float32, sample_readable.py keeps
\* it in double precision).
C10_UpdatesAgreeWhenExact ==
    (Updated /\ IsF32(hist.start) /\ ExactSums(hist.start)) =>
        Kinematics(View) = Kinematics(OtherUpdate)

\* an exact frame of sample.py that reflected a particle on the far edge
C10_Witness ==
    /\ Updated /\ prog = "vectorized" /\ N >= 1
    /\ ExactSums(hist.start)
    /\ hist.integ[1].x > Edge(W)
    /\ hist.start[1].vx > 0
    /\ View[1].vx < 0

====
